---- MODULE Spec2Model ----
(***************************************************************************)
(* A model of the music production core of rmur-mvp:                       *)
(*   - AudioBuffer (src/music_ai_core/live_studio.py), the lock-guarded    *)
(*     bounded sample queue, with its callers as concurrent threads;       *)
(*   - LiveMusicStudio with InstrumentSynthesizer and EffectsProcessor,    *)
(*     the track registry, the effects and the mixer;                      *)
(*   - the functions of InstrumentSynthesizer and EffectsProcessor called  *)
(*     on their own;                                                       *)
(*   - ModuleOrchestrator (src/music_ai_core/orchestrator.py), the module  *)
(*     registry, the event log and the callbacks.                          *)
(* Sample values are exact rationals; numpy arrays are heap objects named  *)
(* by references, so that aliasing between tracks and callers is visible.  *)
(***************************************************************************)
EXTENDS Integers, Sequences, FiniteSets, TLC

(***************************************************************************)
(* Bounds of the model.                                                    *)
(***************************************************************************)
\* number of threads that call the one AudioBuffer concurrently
NumThreads == 2
\* AudioBuffer.max_size of the buffer under test (a constructor argument)
MaxSize == 2
\* longest array handed to AudioBuffer.write
MaxData == 2
\* largest frame count handed to AudioBuffer.read
MaxFrames == 2
\* samples written since the last clear() that the history variable follows
MaxWritten == 3

\* LiveMusicStudio.num_tracks of the studio under test
NumTracks == 2
\* calls that change the studio, per run
MaxOps == 3

Threads == 1..NumThreads
\* the sample values written to the buffer: non-zero, so that a sample is
\* never mistaken for the silence read() returns
BufSamples == {1, 2}

\* all sequences over S of length 0..n
RECURSIVE SeqsUpTo(_, _)
SeqsUpTo(S, n) ==
    IF n = 0 THEN {<<>>}
    ELSE LET shorter == SeqsUpTo(S, n - 1)
         IN  shorter \cup {Append(s, x) : s \in {q \in shorter : Len(q) = n - 1}, x \in S}

VARIABLES
    buffer,     \* AudioBuffer._buffer, the deque's content, oldest first
    lock,       \* AudioBuffer._lock: 0 when free, else the thread that holds it
    pc,         \* where each thread is in its call
    op,         \* the method each thread is in
    data,       \* the argument of write(): the samples to append
    frames,     \* the argument of read(): the number of samples asked for
    idx,        \* write()'s position in data (the for loop's iterator)
    out,        \* the list read() has built so far
    result,     \* what the call that returned last returned
    \* history variables
    written,    \* the samples appended since the last clear(), in order
    drained,    \* whether a read removed samples since the last clear()
    serialBuf,  \* the buffer content if every call so far took effect at once
    serialRes,  \* what the call that entered last returns if it takes effect at once
    snap,       \* the buffer content when the running read() passed its check
    pair        \* one thread's write(d) directly followed by its read(len(d))

bufVars == <<buffer, lock, pc, op, data, frames, idx, out, result,
             written, drained, serialBuf, serialRes, snap, pair>>

\* the state of a LiveMusicStudio and of its caller
VARIABLES
    heap,               \* the arrays alive: reference -> samples
    tracks,             \* LiveMusicStudio.tracks: track -> reference
    track_parameters,   \* LiveMusicStudio.track_parameters
    master_volume,      \* LiveMusicStudio.master_volume
    tempo,              \* LiveMusicStudio.tempo
    time_signature,     \* LiveMusicStudio.time_signature
    held,               \* the array the caller still holds: the argument of its
                        \* last record_track or the value of its last
                        \* generate_track (0: none)
    ret,                \* the outcome of the last call
    opCount             \* the calls so far that changed the studio

studioVars == <<heap, tracks, track_parameters, master_volume, tempo,
                time_signature, held, ret, opCount>>

\* one call of a function of InstrumentSynthesizer or EffectsProcessor
VARIABLES
    dspIn,              \* the object's sample_rate and parameters, and the
                        \* arguments of the call
    dspOut              \* the outcome of the call

dspVars == <<dspIn, dspOut>>

\* the state of a ModuleOrchestrator and of its caller
VARIABLES
    modules,            \* ModuleOrchestrator.modules: the names registered
    module_states,      \* ModuleOrchestrator.module_states
    event_log,          \* ModuleOrchestrator.event_log
    callbacks,          \* ModuleOrchestrator.callbacks: event name -> callbacks
    orchRet,            \* the outcome of the last call
    orchOps             \* the calls made so far

orchVars == <<modules, module_states, event_log, callbacks, orchRet, orchOps>>

\* return values: None, an array, or a raised exception
NoResult == [kind |-> "None", val |-> <<>>]
Array(s) == [kind |-> "array", val |-> s]
IndexError == [kind |-> "IndexError", val |-> <<>>]

\* no write-then-read pair is followed
NoPair == [who |-> 0, data |-> <<>>, stage |-> "none"]

(***************************************************************************)
(* AudioBuffer                                                             *)
(***************************************************************************)
\* deque(maxlen=max_size).append: a full deque drops its oldest entry
DequeAppendUnbounded(b, x) == Append(b, x)
DequeAppend(b, x) ==
    IF MaxSize = 0 THEN b
    ELSE IF Len(b) >= MaxSize THEN Append(Tail(b), x)
    ELSE Append(b, x)

\* np.zeros(frames)
Zeros(n) == [i \in 1..n |-> 0]

\* "with self._lock:" entered: threading.Lock.acquire blocks while it is held
LockAcquireNoWait(t) == lock' = t
LockAcquire(t) == lock = 0 /\ lock' = t

\* "with self._lock:" left, by the end of the block, a return or an exception
LockRelease(t) == lock' = 0

BufInit ==
    /\ buffer = <<>>
    /\ lock = 0
    /\ pc = [t \in Threads |-> "idle"]
    /\ op = [t \in Threads |-> "none"]
    /\ data = [t \in Threads |-> <<>>]
    /\ frames = [t \in Threads |-> 0]
    /\ idx = [t \in Threads |-> 1]
    /\ out = [t \in Threads |-> <<>>]
    /\ result = NoResult
    /\ written = <<>>
    /\ drained = FALSE
    /\ serialBuf = <<>>
    /\ serialRes = NoResult
    /\ snap = <<>>
    /\ pair = NoPair

\* the effect of a whole call applied at once (the serial reference)
RECURSIVE SerialWrite(_, _)
SerialWrite(b, d) ==
    IF d = <<>> THEN b
    ELSE SerialWrite(IF Len(b) >= MaxSize THEN Append(Tail(b), Head(d))
                     ELSE Append(b, Head(d)), Tail(d))

SerialReadResult(b, n) == Array(IF Len(b) < n THEN Zeros(n) ELSE SubSeq(b, 1, n))
SerialReadRest(b, n) == IF Len(b) < n THEN b ELSE SubSeq(b, n + 1, Len(b))

\* the pair history: thread t starts a call of method m
PairAtCall(t, m) ==
    IF pair.who = t /\ ~(m = "read" /\ pair.stage = "written") THEN NoPair ELSE pair
\* thread t's read draws its frame count n
PairAtRead(t, n) ==
    IF pair.who # t THEN pair
    ELSE IF n = Len(pair.data) THEN [pair EXCEPT !.stage = "reading"]
    ELSE NoPair
\* thread t's write(d) returns
PairAtWriteReturn(t, d) ==
    IF d # <<>> THEN [who |-> t, data |-> d, stage |-> "written"]
    ELSE IF pair.who = t THEN NoPair ELSE pair
\* thread t's read returns r
PairAtReadReturn(t, r) ==
    IF pair.who # t THEN pair
    ELSE [who |-> t, data |-> <<>>,
          stage |-> IF r = Array(pair.data) THEN "same" ELSE "differs"]

\* A thread calls write, read or clear and reaches "with self._lock:".  The
\* argument is drawn when the body first reads it: until then no other
\* thread can observe it.
CallWrite(t) ==
    /\ pc[t] = "idle"
    /\ pc' = [pc EXCEPT ![t] = "acquire"]
    /\ op' = [op EXCEPT ![t] = "write"]
    /\ pair' = PairAtCall(t, "write")
    /\ UNCHANGED <<buffer, lock, data, frames, idx, out, result,
                   written, drained, serialBuf, serialRes, snap>>
    /\ UNCHANGED <<studioVars, dspVars, orchVars>>

CallRead(t) ==
    /\ pc[t] = "idle"
    /\ pc' = [pc EXCEPT ![t] = "acquire"]
    /\ op' = [op EXCEPT ![t] = "read"]
    /\ pair' = PairAtCall(t, "read")
    /\ UNCHANGED <<buffer, lock, data, frames, idx, out, result,
                   written, drained, serialBuf, serialRes, snap>>
    /\ UNCHANGED <<studioVars, dspVars, orchVars>>

CallClear(t) ==
    /\ pc[t] = "idle"
    /\ pc' = [pc EXCEPT ![t] = "acquire"]
    /\ op' = [op EXCEPT ![t] = "clear"]
    /\ pair' = PairAtCall(t, "clear")
    /\ UNCHANGED <<buffer, lock, data, frames, idx, out, result,
                   written, drained, serialBuf, serialRes, snap>>
    /\ UNCHANGED <<studioVars, dspVars, orchVars>>

\* "with self._lock:" of write(d)
AcquireWrite(t, d) ==
    /\ pc[t] = "acquire" /\ op[t] = "write"
    /\ Len(written) + Len(d) <= MaxWritten
    /\ LockAcquire(t)
    /\ pc' = [pc EXCEPT ![t] = "write_loop"]
    /\ data' = [data EXCEPT ![t] = d]
    /\ idx' = [idx EXCEPT ![t] = 1]
    /\ result' = NoResult
    /\ serialBuf' = SerialWrite(serialBuf, d)
    /\ serialRes' = NoResult
    /\ UNCHANGED <<buffer, op, frames, out, written, drained, snap, pair>>
    /\ UNCHANGED <<studioVars, dspVars, orchVars>>

\* "with self._lock:" of read(n)
AcquireRead(t, n) ==
    /\ pc[t] = "acquire" /\ op[t] = "read"
    /\ LockAcquire(t)
    /\ pc' = [pc EXCEPT ![t] = "read_check"]
    /\ frames' = [frames EXCEPT ![t] = n]
    /\ result' = NoResult
    /\ serialBuf' = SerialReadRest(serialBuf, n)
    /\ serialRes' = SerialReadResult(serialBuf, n)
    /\ pair' = PairAtRead(t, n)
    /\ UNCHANGED <<buffer, op, data, idx, out, written, drained, snap>>
    /\ UNCHANGED <<studioVars, dspVars, orchVars>>

\* "with self._lock:" of clear()
AcquireClear(t) ==
    /\ pc[t] = "acquire" /\ op[t] = "clear"
    /\ LockAcquire(t)
    /\ pc' = [pc EXCEPT ![t] = "clear_body"]
    /\ result' = NoResult
    /\ serialBuf' = <<>>
    /\ serialRes' = NoResult
    /\ UNCHANGED <<buffer, op, data, frames, idx, out, written, drained, snap, pair>>
    /\ UNCHANGED <<studioVars, dspVars, orchVars>>

\* a thread enters the with block of the method it called
Acquire(t) ==
    \/ \E d \in SeqsUpTo(BufSamples, MaxData) : AcquireWrite(t, d)
    \/ \E n \in 0..MaxFrames : AcquireRead(t, n)
    \/ AcquireClear(t)

\* write: one turn of "for sample in data: self._buffer.append(sample)"
WriteAppend(t) ==
    /\ pc[t] = "write_loop"
    /\ idx[t] <= Len(data[t])
    /\ buffer' = DequeAppend(buffer, data[t][idx[t]])
    /\ idx' = [idx EXCEPT ![t] = idx[t] + 1]
    /\ written' = IF drained THEN written ELSE Append(written, data[t][idx[t]])
    /\ UNCHANGED <<lock, pc, op, data, frames, out, result,
                   drained, serialBuf, serialRes, snap, pair>>
    /\ UNCHANGED <<studioVars, dspVars, orchVars>>

\* write: the loop is over, the with block ends and write returns None
WriteReturnKeepLock(t) ==
    /\ pc[t] = "write_loop"
    /\ idx[t] > Len(data[t])
    /\ pc' = [pc EXCEPT ![t] = "idle"]
    /\ result' = NoResult
    /\ pair' = PairAtWriteReturn(t, data[t])
    /\ data' = [data EXCEPT ![t] = <<>>]
    /\ idx' = [idx EXCEPT ![t] = 1]
    /\ UNCHANGED <<lock, buffer, op, frames, out,
                   written, drained, serialBuf, serialRes, snap>>
    /\ UNCHANGED <<studioVars, dspVars, orchVars>>
WriteReturn(t) ==
    /\ pc[t] = "write_loop"
    /\ idx[t] > Len(data[t])
    /\ LockRelease(t)
    /\ pc' = [pc EXCEPT ![t] = "idle"]
    /\ result' = NoResult
    /\ pair' = PairAtWriteReturn(t, data[t])
    /\ data' = [data EXCEPT ![t] = <<>>]
    /\ idx' = [idx EXCEPT ![t] = 1]
    /\ UNCHANGED <<buffer, op, frames, out,
                   written, drained, serialBuf, serialRes, snap>>
    /\ UNCHANGED <<studioVars, dspVars, orchVars>>

\* read: "if len(self._buffer) < frames: return np.zeros(frames)"; the return
\* leaves the with block, which releases the lock
ReadEarlyPartial(t) ==
    /\ pc[t] = "read_check"
    /\ Len(buffer) < frames[t]
    /\ LockRelease(t)
    /\ result' = Array(buffer \o Zeros(frames[t] - Len(buffer)))
    /\ buffer' = <<>>
    /\ pc' = [pc EXCEPT ![t] = "idle"]
    /\ frames' = [frames EXCEPT ![t] = 0]
    /\ pair' = PairAtReadReturn(t, Array(buffer \o Zeros(frames[t] - Len(buffer))))
    /\ UNCHANGED <<op, data, idx, out, written, drained, serialBuf, serialRes, snap>>
    /\ UNCHANGED <<studioVars, dspVars, orchVars>>
ReadEarlyKeepLock(t) ==
    /\ pc[t] = "read_check"
    /\ Len(buffer) < frames[t]
    /\ result' = Array(Zeros(frames[t]))
    /\ pc' = [pc EXCEPT ![t] = "idle"]
    /\ frames' = [frames EXCEPT ![t] = 0]
    /\ pair' = PairAtReadReturn(t, Array(Zeros(frames[t])))
    /\ UNCHANGED <<lock, buffer, op, data, idx, out,
                   written, drained, serialBuf, serialRes, snap>>
    /\ UNCHANGED <<studioVars, dspVars, orchVars>>
ReadEarly(t) ==
    /\ pc[t] = "read_check"
    /\ Len(buffer) < frames[t]
    /\ LockRelease(t)
    /\ result' = Array(Zeros(frames[t]))
    /\ pc' = [pc EXCEPT ![t] = "idle"]
    /\ frames' = [frames EXCEPT ![t] = 0]
    /\ pair' = PairAtReadReturn(t, Array(Zeros(frames[t])))
    /\ UNCHANGED <<buffer, op, data, idx, out,
                   written, drained, serialBuf, serialRes, snap>>
    /\ UNCHANGED <<studioVars, dspVars, orchVars>>

\* read: the check passed, the list comprehension starts
ReadBegin(t) ==
    /\ pc[t] = "read_check"
    /\ ~(Len(buffer) < frames[t])
    /\ pc' = [pc EXCEPT ![t] = "read_pop"]
    /\ out' = [out EXCEPT ![t] = <<>>]
    /\ snap' = buffer
    /\ UNCHANGED <<buffer, lock, op, data, frames, idx, result,
                   written, drained, serialBuf, serialRes, pair>>
    /\ UNCHANGED <<studioVars, dspVars, orchVars>>

\* read: one turn of "[self._buffer.popleft() for _ in range(frames)]";
\* popleft on an empty deque raises IndexError, which leaves the with block
ReadPopRight(t) ==
    /\ pc[t] = "read_pop"
    /\ Len(out[t]) < frames[t]
    /\ IF buffer = <<>>
       THEN /\ LockRelease(t)
            /\ result' = IndexError
            /\ pc' = [pc EXCEPT ![t] = "idle"]
            /\ snap' = <<>>
            /\ out' = [out EXCEPT ![t] = <<>>]
            /\ frames' = [frames EXCEPT ![t] = 0]
            /\ pair' = PairAtReadReturn(t, IndexError)
            /\ UNCHANGED <<buffer, written, drained>>
       ELSE /\ out' = [out EXCEPT ![t] = Append(out[t], buffer[Len(buffer)])]
            /\ buffer' = SubSeq(buffer, 1, Len(buffer) - 1)
            /\ drained' = TRUE
            /\ written' = <<>>
            /\ UNCHANGED <<lock, pc, result, snap, frames, pair>>
    /\ UNCHANGED <<op, data, idx, serialBuf, serialRes>>
    /\ UNCHANGED <<studioVars, dspVars, orchVars>>
ReadPop(t) ==
    /\ pc[t] = "read_pop"
    /\ Len(out[t]) < frames[t]
    /\ IF buffer = <<>>
       THEN /\ LockRelease(t)
            /\ result' = IndexError
            /\ pc' = [pc EXCEPT ![t] = "idle"]
            /\ snap' = <<>>
            /\ out' = [out EXCEPT ![t] = <<>>]
            /\ frames' = [frames EXCEPT ![t] = 0]
            /\ pair' = PairAtReadReturn(t, IndexError)
            /\ UNCHANGED <<buffer, written, drained>>
       ELSE /\ out' = [out EXCEPT ![t] = Append(out[t], Head(buffer))]
            /\ buffer' = Tail(buffer)
            /\ drained' = TRUE
            /\ written' = <<>>
            /\ UNCHANGED <<lock, pc, result, snap, frames, pair>>
    /\ UNCHANGED <<op, data, idx, serialBuf, serialRes>>
    /\ UNCHANGED <<studioVars, dspVars, orchVars>>

\* read: the list is complete, "return np.array([...])" leaves the with block
ReadReturn(t) ==
    /\ pc[t] = "read_pop"
    /\ Len(out[t]) = frames[t]
    /\ LockRelease(t)
    /\ result' = Array(out[t])
    /\ out' = [out EXCEPT ![t] = <<>>]
    /\ pc' = [pc EXCEPT ![t] = "idle"]
    /\ snap' = <<>>
    /\ frames' = [frames EXCEPT ![t] = 0]
    /\ pair' = PairAtReadReturn(t, Array(out[t]))
    /\ UNCHANGED <<buffer, op, data, idx, written, drained, serialBuf, serialRes>>
    /\ UNCHANGED <<studioVars, dspVars, orchVars>>

\* clear: "self._buffer.clear()", then the with block ends
ClearBody(t) ==
    /\ pc[t] = "clear_body"
    /\ buffer' = <<>>
    /\ LockRelease(t)
    /\ pc' = [pc EXCEPT ![t] = "idle"]
    /\ result' = NoResult
    /\ written' = <<>>
    /\ drained' = FALSE
    /\ UNCHANGED <<op, data, frames, idx, out, serialBuf, serialRes, snap, pair>>
    /\ UNCHANGED <<studioVars, dspVars, orchVars>>

\* a step of thread t inside a with block
BufBody(t) ==
    \/ WriteAppend(t)
    \/ WriteReturn(t)
    \/ ReadEarly(t)
    \/ ReadBegin(t)
    \/ ReadPop(t)
    \/ ReadReturn(t)
    \/ ClearBody(t)

BufCall(t) ==
    \/ CallWrite(t)
    \/ CallRead(t)
    \/ CallClear(t)

(***************************************************************************)
(* Properties of AudioBuffer                                               *)
(***************************************************************************)
InWith(t) == pc[t] \notin {"idle", "acquire"}

AllZero(s) == \A i \in 1..Len(s) : s[i] = 0
NoZero(s) == \A i \in 1..Len(s) : s[i] # 0

LastN(s, n) == IF Len(s) <= n THEN s ELSE SubSeq(s, Len(s) - n + 1, Len(s))

\* C1: a read(frames) that finds fewer than frames samples buffered returns
\* exactly frames zeros and leaves the buffer content as it was.
C1_ShortReadReturnsSilence ==
    [][\A t \in Threads :
          (pc[t] = "read_check" /\ Len(buffer) < frames[t] /\ pc'[t] # pc[t])
          => /\ pc'[t] = "idle"
             /\ result' = Array(Zeros(frames[t]))
             /\ buffer' = buffer]_bufVars

\* a read returned silence although samples were buffered, and they still are
C1_Witness ==
    /\ result.kind = "array" /\ Len(result.val) > 0 /\ AllZero(result.val)
    /\ buffer # <<>> /\ Len(buffer) < Len(result.val)

\* C2: a read(frames) that finds at least frames samples buffered returns the
\* frames oldest samples in write order and removes exactly those.
C2_ReadTakesOldest ==
    [][\A t \in Threads :
          /\ (pc[t] = "read_check" /\ Len(buffer) >= frames[t] /\ pc'[t] # pc[t])
             => pc'[t] = "read_pop" /\ buffer' = buffer
          /\ (pc[t] = "read_pop" /\ pc'[t] = "idle")
             => /\ result' = Array(SubSeq(snap, 1, frames[t]))
                /\ buffer' = SubSeq(snap, frames[t] + 1, Len(snap))]_bufVars

\* a read returned samples and left a younger sample behind
C2_Witness ==
    /\ result.kind = "array" /\ Len(result.val) > 0 /\ NoZero(result.val)
    /\ buffer # <<>> /\ lock = 0

\* C3: the buffer never holds more than its capacity, and as long as no read
\* has removed anything it holds the most recent samples written, at most
\* capacity of them, in write order.
C3_BoundedKeepsNewest ==
    /\ Len(buffer) <= MaxSize
    /\ ~drained => buffer = LastN(written, MaxSize)

\* more samples than the capacity were written and the oldest were dropped
C3_Witness ==
    /\ ~drained /\ Len(written) > MaxSize /\ Len(buffer) = MaxSize
    /\ written[1] # buffer[1]

\* C4: write, read and clear exclude each other, and whenever no call is in
\* progress the buffer and the value returned last are those of the calls
\* taking effect one at a time, in the order they took the lock; a read
\* returns only zeros or only samples.
C4_CallsAreAtomic ==
    /\ \A t, u \in Threads : (t # u /\ InWith(t)) => ~InWith(u)
    /\ \A t \in Threads : InWith(t) => lock = t
    /\ lock = 0 => buffer = serialBuf /\ result = serialRes
    /\ result.kind # "IndexError"
    /\ result.kind = "array" => AllZero(result.val) \/ NoZero(result.val)

\* a write of several samples is half applied while a reader waits for the lock
C4_Witness ==
    \E t, u \in Threads :
        /\ pc[t] = "write_loop" /\ 1 < idx[t] /\ idx[t] <= Len(data[t])
        /\ pc[u] = "acquire" /\ op[u] = "read"

\* C5: every call that has started returns, with the lock released.
C5_EveryCallReturns ==
    \A t \in Threads : (pc[t] # "idle") ~> (pc[t] = "idle" /\ lock # t)

\* a read is about to return silence while another thread waits for the lock
C5_Witness ==
    \E t, u \in Threads :
        /\ pc[t] = "read_check" /\ Len(buffer) < frames[t]
        /\ pc[u] = "acquire"

RECURSIVE Gcd(_, _)
Gcd(a, b) == IF b = 0 THEN a ELSE Gcd(b, a % b)

IAbs(n) == IF n < 0 THEN -n ELSE n

\* the rational n/d, d # 0, in lowest terms
Rat(n, d) ==
    LET g == Gcd(IAbs(n), IAbs(d))
        sgn == IF d < 0 THEN -1 ELSE 1
    IN  <<(sgn * n) \div g, (sgn * d) \div g>>

RInt(n) == <<n, 1>>
RZero == <<0, 1>>
ROne == <<1, 1>>

RAdd(a, b) == Rat(a[1] * b[2] + b[1] * a[2], a[2] * b[2])
RSub(a, b) == Rat(a[1] * b[2] - b[1] * a[2], a[2] * b[2])
RMul(a, b) == Rat(a[1] * b[1], a[2] * b[2])
RDiv(a, b) == Rat(a[1] * b[2], a[2] * b[1])
RNeg(a) == <<-a[1], a[2]>>
RAbs(a) == <<IAbs(a[1]), a[2]>>
RLt(a, b) == a[1] * b[2] < b[1] * a[2]
RLe(a, b) == a[1] * b[2] <= b[1] * a[2]
RMax(a, b) == IF RLt(a, b) THEN b ELSE a
RMin(a, b) == IF RLt(b, a) THEN b ELSE a
\* math.floor
RFloor(a) == a[1] \div a[2]
\* int(): truncation toward zero
RTrunc(a) == IF a[1] >= 0 THEN a[1] \div a[2] ELSE -((-a[1]) \div a[2])
\* np.sign
RSign(a) == IF a[1] > 0 THEN ROne ELSE IF a[1] < 0 THEN RInt(-1) ELSE RZero

\* elementwise operations on arrays (sequences of rationals)
VScale(v, c) == [i \in 1..Len(v) |-> RMul(v[i], c)]
VAdd(v, w) == [i \in 1..Len(v) |-> RAdd(v[i], w[i])]
VMul(v, w) == [i \in 1..Len(v) |-> RMul(v[i], w[i])]
\* np.zeros(n)
VZeros(n) == [i \in 1..n |-> RZero]
\* np.max(np.abs(v)) of a non-empty array
RECURSIVE VPeak(_)
VPeak(v) ==
    IF Len(v) = 1 THEN RAbs(v[1]) ELSE RMax(RAbs(v[1]), VPeak(Tail(v)))
\* v[:n] of numpy, n >= 0
VTake(v, n) == SubSeq(v, 1, IF n < Len(v) THEN n ELSE Len(v))
\* np.concatenate of a non-empty list of arrays
RECURSIVE VConcat(_)
VConcat(segs) == IF segs = <<>> THEN <<>> ELSE Head(segs) \o VConcat(Tail(segs))

(***************************************************************************)
(* InstrumentSynthesizer and EffectsProcessor                              *)
(***************************************************************************)
\* The sample_rate the studio under test is built with.  It is small, so
\* that a note is a handful of samples, and a multiple of 4, so that the
\* sine of the notes used falls on quarter turns, where it is rational.
SampleRate == 20

\* InstrumentSynthesizer.parameters
Attack == Rat(1, 100)
Decay == Rat(1, 10)
Sustain == Rat(7, 10)
Release == Rat(3, 10)
\* "Scale to 0.3 amplitude"
Amplitude == Rat(3, 10)

\* sin(2 pi x) for x a whole number of quarter turns
SinTurns(x) ==
    LET q == RMul(x, RInt(4))
    IN  CASE q[2] = 1 /\ q[1] % 4 = 0 -> RZero
          [] q[2] = 1 /\ q[1] % 4 = 1 -> ROne
          [] q[2] = 1 /\ q[1] % 4 = 2 -> RZero
          [] q[2] = 1 /\ q[1] % 4 = 3 -> RInt(-1)

\* the waveform at phase x = frequency * t
Wave(waveform, x) ==
    CASE waveform = "sine" -> SinTurns(x)
      [] waveform = "square" -> RSign(SinTurns(x))
      [] waveform = "sawtooth" ->
            RMul(RInt(2), RSub(x, RInt(RFloor(RAdd(x, Rat(1, 2))))))
      [] waveform = "triangle" ->
            RSub(RMul(RInt(4),
                      RAbs(RSub(RSub(x, RInt(RFloor(RAdd(x, Rat(3, 4))))),
                                Rat(1, 2)))),
                 ROne)
      [] OTHER -> SinTurns(x)

\* np.linspace(a, b, n), n >= 1
Linspace(a, b, n) ==
    IF n = 1 THEN <<a>>
    ELSE [i \in 1..n |-> RAdd(a, RMul(Rat(i - 1, n - 1), RSub(b, a)))]

\* np.full(n, c)
Full(n, c) == [i \in 1..n |-> c]

IMax(a, b) == IF a < b THEN b ELSE a

\* InstrumentSynthesizer.parameters as __init__ leaves them
SynthParameters ==
    [attack |-> Attack, decay |-> Decay, sustain |-> Sustain, release |-> Release]

\* the segments of the envelope before they are concatenated
EnvelopeSegments(sample_rate, parameters, length) ==
    LET attack_len == RTrunc(RMul(parameters.attack, RInt(sample_rate)))
        decay_len == RTrunc(RMul(parameters.decay, RInt(sample_rate)))
        release_len == RTrunc(RMul(parameters.release, RInt(sample_rate)))
        sustain_len == length - attack_len - decay_len - release_len
    IN  <<Linspace(RZero, ROne, IMax(1, attack_len)),
          Linspace(ROne, parameters.sustain, IMax(1, decay_len)),
          Full(IMax(0, sustain_len), parameters.sustain),
          Linspace(parameters.sustain, RZero, IMax(1, release_len))>>

\* (an envelope that is not cut to the length asked for)
EnvelopeUncut(sample_rate, parameters, length) ==
    VConcat(EnvelopeSegments(sample_rate, parameters, length))
\* InstrumentSynthesizer._envelope_adsr of a synthesizer with the given
\* sample_rate and parameters
EnvelopeOf(sample_rate, parameters, length) ==
    VTake(VConcat(EnvelopeSegments(sample_rate, parameters, length)), length)

\* InstrumentSynthesizer._envelope_adsr of the studio's synthesizer
EnvelopeADSR(length) == EnvelopeOf(SampleRate, SynthParameters, length)

\* the number of samples of a note: len(np.arange(int(sample_rate * duration)))
NoteLengthOf(sample_rate, duration) ==
    IMax(0, RTrunc(RMul(RInt(sample_rate), duration)))
NoteLength(duration) == NoteLengthOf(SampleRate, duration)

\* the signal of a note before the envelope
Signal(sample_rate, frequency, duration, waveform) ==
    [i \in 1..NoteLengthOf(sample_rate, duration) |->
        Wave(waveform, RMul(Rat(i - 1, sample_rate), frequency))]

\* InstrumentSynthesizer.synthesize_note of a synthesizer with the given
\* sample_rate and parameters
SynthesizeNoteOf(sample_rate, parameters, frequency, duration, waveform) ==
    LET signal == Signal(sample_rate, frequency, duration, waveform)
        envelope == EnvelopeOf(sample_rate, parameters, Len(signal))
    IN  VScale(VMul(signal, envelope), Amplitude)

\* InstrumentSynthesizer.synthesize_note of the studio's synthesizer
SynthesizeNote(frequency, duration, waveform) ==
    SynthesizeNoteOf(SampleRate, SynthParameters, frequency, duration, waveform)

\* defaults of the effect parameters
DefaultReverbDecay == Rat(1, 2)
DefaultDelayTime == Rat(1, 4)
DefaultFeedback == Rat(3, 10)
DefaultThreshold == Rat(6, 10)
DefaultRatio == RInt(4)
ReverbTime == Rat(5, 100)

\* (an echo with recursive feedback: the echo is taken from the output)
RECURSIVE ShiftAddFeedback(_, _, _)
ShiftAddFeedback(audio, shift, gain) ==
    IF audio = <<>> \/ shift < 1 THEN VAdd(audio, VScale(audio, IF shift < 1 THEN gain ELSE RZero))
    ELSE LET n == Len(audio)
             before == ShiftAddFeedback(SubSeq(audio, 1, n - 1), shift, gain)
         IN  Append(before,
                    IF n > shift
                    THEN RAdd(audio[n], RMul(gain, before[n - shift]))
                    ELSE audio[n])
\* (an echo that keeps its tail: the result is shift samples longer)
ShiftAddTail(audio, shift, gain) ==
    VAdd(audio \o VZeros(shift), VScale(VZeros(shift) \o audio, gain))
\* audio + gain * (audio shifted right by shift samples, cut to len(audio))
ShiftAdd(audio, shift, gain) ==
    LET delayed == VZeros(shift) \o audio
    IN  VAdd(audio, VScale(VTake(delayed, Len(audio)), gain))

\* EffectsProcessor.add_reverb of a processor with the given sample_rate
AddReverbOf(sample_rate, audio, decay) ==
    ShiftAdd(audio, RTrunc(RMul(ReverbTime, RInt(sample_rate))), decay)
\* EffectsProcessor.add_reverb of the studio's processor
AddReverb(audio, decay) == AddReverbOf(SampleRate, audio, decay)

\* EffectsProcessor.add_delay of a processor with the given sample_rate
AddDelayOf(sample_rate, audio, delay_time, feedback) ==
    ShiftAdd(audio, RTrunc(RMul(delay_time, RInt(sample_rate))), feedback)
\* EffectsProcessor.add_delay of the studio's processor
AddDelay(audio, delay_time, feedback) ==
    AddDelayOf(SampleRate, audio, delay_time, feedback)

\* EffectsProcessor.add_compression
AddCompression(audio, threshold, ratio) ==
    [i \in 1..Len(audio) |->
        IF RLt(threshold, RAbs(audio[i]))
        THEN RMul(audio[i], RDiv(ROne, ratio)) ELSE audio[i]]

\* (a normalize that leaves the audio as it is)
NormalizeNone(audio, target) == audio
\* EffectsProcessor.normalize of a non-empty array (np.max raises on an
\* empty one)
Normalize(audio, target) ==
    LET peak == VPeak(audio)
    IN  IF RLt(RZero, peak) THEN VScale(audio, RDiv(target, peak)) ELSE audio

(***************************************************************************)
(* LiveMusicStudio.  A numpy array is an object on the heap, named by a    *)
(* reference; a track holds a reference, and so may the caller.            *)
(***************************************************************************)
\* track_0 .. track_{N-1}; the name N was never initialized
TrackNames == 0..(NumTracks - 1)
AnyNames == 0..NumTracks

DefaultTempo == 120

\* exceptions
NoExc == [type |-> "none", msg |-> ""]
NotFound == [type |-> "ValueError", msg |-> "Track not found"]
ConcatError == [type |-> "ValueError", msg |-> "need at least one array to concatenate"]

\* the outcome of a call: the exception raised if any, the array returned
\* (a reference, 0 if none) and the matrix returned by mix
Outcome(o, a, exc, r, m) ==
    [op |-> o, args |-> a, raised |-> exc, ref |-> r, matrix |-> m]
NoMatrix == [ndim |-> 0, rows |-> <<>>]

\* keyword arguments and the recorded effects are sets of <<key, value>>
Get(kw, key, default) ==
    IF \E p \in kw : p[1] = key THEN (CHOOSE p \in kw : p[1] = key)[2] ELSE default
\* (a dict that kept the earlier value next to the new one)
PutKeep(kw, key, value) == kw \cup {<<key, value>>}
Put(kw, key, value) == {p \in kw : p[1] # key} \cup {<<key, value>>}

\* a reference not in use
NewRef(h) == CHOOSE r \in 1..(Cardinality(DOMAIN h) + 1) : r \notin DOMAIN h
\* the heap without the arrays nobody refers to any more
Collect(h, tr, hd) ==
    [r \in {x \in DOMAIN h : x = hd \/ \E i \in TrackNames : tr[i] = x} |-> h[r]]

\* the samples of a track
Samples(name) == heap[tracks[name]]

StudioInit ==
    /\ heap = [r \in 1..NumTracks |-> <<>>]
    /\ tracks = [i \in TrackNames |-> i + 1]
    /\ track_parameters =
          [i \in TrackNames |->
              [name |-> i, muted |-> FALSE, volume |-> ROne, pan |-> RZero,
               effects |-> {}]]
    /\ master_volume = ROne
    /\ tempo = DefaultTempo
    /\ time_signature = <<4, 4>>
    /\ held = 0
    /\ ret = Outcome("init", <<>>, NoExc, 0, NoMatrix)
    /\ opCount = 0

\* a call on the studio can start: the model makes no further call once
\* MaxOps calls have changed the studio, and the buffer is left alone
CanCall == opCount < MaxOps /\ UNCHANGED <<bufVars, dspVars, orchVars>>

\* LiveMusicStudio.record_track, the caller passing array r of heap h
RecordTrack(name, r, h) ==
    IF name \notin TrackNames
    THEN /\ ret' = Outcome("record_track", <<name>>, NotFound, 0, NoMatrix)
         /\ heap' = Collect(h, tracks, r)
         /\ held' = r
         /\ UNCHANGED <<tracks, track_parameters, master_volume, tempo,
                        time_signature, opCount>>
    ELSE /\ tracks' = [tracks EXCEPT ![name] = r]
         /\ heap' = Collect(h, tracks', r)
         /\ held' = r
         /\ ret' = Outcome("record_track", <<name>>, NoExc, 0, NoMatrix)
         /\ opCount' = opCount + 1
         /\ UNCHANGED <<track_parameters, master_volume, tempo, time_signature>>

\* record_track with an array the caller has just made
RecordNew(name, audio) ==
    /\ CanCall
    /\ LET r == NewRef(heap) IN RecordTrack(name, r, (r :> audio) @@ heap)

\* record_track with the array the caller still holds
RecordHeld(name) ==
    /\ CanCall
    /\ held # 0
    /\ RecordTrack(name, held, heap)

\* the segments of generate_track: one synthesize_note per (freq, duration)
NoteSegments(notes, waveform) ==
    [k \in 1..Len(notes) |-> SynthesizeNote(notes[k][1], notes[k][2], waveform)]

\* LiveMusicStudio.generate_track
GenerateTrack(name, notes, waveform) ==
    /\ CanCall
    /\ LET audio_segments == NoteSegments(notes, waveform)
           r == NewRef(heap)
       IN  IF audio_segments = <<>>
           THEN \* np.concatenate([]) raises before record_track is reached
                /\ ret' = Outcome("generate_track", <<name, notes, waveform>>,
                                  ConcatError, 0, NoMatrix)
                /\ UNCHANGED <<heap, tracks, track_parameters, master_volume, tempo,
                               time_signature, held, opCount>>
           ELSE IF name \notin TrackNames
           THEN /\ ret' = Outcome("generate_track", <<name>>,
                                  NotFound, 0, NoMatrix)
                /\ UNCHANGED <<heap, tracks, track_parameters, master_volume, tempo,
                               time_signature, held, opCount>>
           ELSE /\ tracks' = [tracks EXCEPT ![name] = r]
                /\ heap' = Collect((r :> VConcat(audio_segments)) @@ heap, tracks', r)
                /\ held' = r
                /\ ret' = Outcome("generate_track", <<name, notes, waveform>>,
                                  NoExc, r, NoMatrix)
                /\ opCount' = opCount + 1
                /\ UNCHANGED <<track_parameters, master_volume, tempo, time_signature>>

\* the array apply_effect computes for the known effect types
EffectOutput(effect_type, audio, kwargs) ==
    CASE effect_type = "reverb" ->
            AddReverb(audio, Get(kwargs, "decay", DefaultReverbDecay))
      [] effect_type = "delay" ->
            AddDelay(audio, Get(kwargs, "delay_time", DefaultDelayTime), DefaultFeedback)
      [] effect_type = "compression" ->
            AddCompression(audio, Get(kwargs, "threshold", DefaultThreshold), DefaultRatio)

KnownEffects == {"reverb", "delay", "compression"}

\* LiveMusicStudio.apply_effect
ApplyEffect(name, effect_type, kwargs) ==
    /\ CanCall
    /\ IF name \notin TrackNames
       THEN /\ ret' = Outcome("apply_effect", <<name>>,
                              NotFound, 0, NoMatrix)
            /\ UNCHANGED <<heap, tracks, track_parameters, master_volume, tempo,
                           time_signature, held, opCount>>
       ELSE LET r == NewRef(heap) IN
            /\ tracks' = IF effect_type \in KnownEffects
                         THEN [tracks EXCEPT ![name] = r] ELSE tracks
            /\ heap' = IF effect_type \in KnownEffects
                       THEN Collect((r :> EffectOutput(effect_type, Samples(name), kwargs))
                                    @@ heap, tracks', held)
                       ELSE heap
            /\ track_parameters' =
                  [track_parameters EXCEPT ![name].effects = Put(@, effect_type, kwargs)]
            /\ ret' = Outcome("apply_effect", <<name, effect_type, kwargs>>,
                              NoExc, 0, NoMatrix)
            /\ opCount' = opCount + 1
            /\ UNCHANGED <<master_volume, tempo, time_signature, held>>

\* (no clamping)
ClampNot(lo, hi, x) == x
\* max(lo, min(hi, x))
Clamp(lo, hi, x) == RMax(lo, RMin(hi, x))

\* (a set_track_volume that stores the volume and leaves the samples)
SetTrackVolumeStoreOnly(name, volume) ==
    /\ CanCall
    /\ name \in TrackNames
    /\ track_parameters' =
          [track_parameters EXCEPT ![name].volume = Clamp(RZero, ROne, volume)]
    /\ ret' = Outcome("set_track_volume", <<name, volume>>, NoExc, 0, NoMatrix)
    /\ opCount' = opCount + 1
    /\ UNCHANGED <<heap, tracks, master_volume, tempo, time_signature, held>>
\* LiveMusicStudio.set_track_volume: "*=" scales the array in place
SetTrackVolume(name, volume) ==
    /\ CanCall
    /\ IF name \notin TrackNames
       THEN /\ ret' = Outcome("set_track_volume", <<name>>, NotFound, 0, NoMatrix)
            /\ UNCHANGED <<heap, tracks, track_parameters, master_volume, tempo,
                           time_signature, held, opCount>>
       ELSE LET v == Clamp(RZero, ROne, volume) IN
            /\ heap' = [heap EXCEPT ![tracks[name]] = VScale(@, v)]
            /\ track_parameters' = [track_parameters EXCEPT ![name].volume = v]
            /\ ret' = Outcome("set_track_volume", <<name, volume>>, NoExc, 0, NoMatrix)
            /\ opCount' = opCount + 1
            /\ UNCHANGED <<tracks, master_volume, tempo, time_signature, held>>

\* LiveMusicStudio.set_track_pan
SetTrackPan(name, pan) ==
    /\ CanCall
    /\ IF name \notin TrackNames
       THEN /\ ret' = Outcome("set_track_pan", <<name>>, NotFound, 0, NoMatrix)
            /\ UNCHANGED <<heap, tracks, track_parameters, master_volume, tempo,
                           time_signature, held, opCount>>
       ELSE /\ track_parameters' =
                  [track_parameters EXCEPT ![name].pan = Clamp(RInt(-1), ROne, pan)]
            /\ ret' = Outcome("set_track_pan", <<name, pan>>, NoExc, 0, NoMatrix)
            /\ opCount' = opCount + 1
            /\ UNCHANGED <<heap, tracks, master_volume, tempo, time_signature, held>>

\* np.pad(audio, (0, n - len(audio)))
PadTo(audio, n) == audio \o VZeros(n - Len(audio))

\* the samples of every track
AllSamples == [i \in TrackNames |-> Samples(i)]

\* (the longest of the unmuted tracks only)
RECURSIVE MaxLenUnmutedUpTo(_, _)
MaxLenUnmutedUpTo(samples, i) ==
    IF i < 0 THEN 0
    ELSE IF track_parameters[i].muted THEN MaxLenUnmutedUpTo(samples, i - 1)
         ELSE IMax(Len(samples[i]), MaxLenUnmutedUpTo(samples, i - 1))
\* max([len(audio) for audio in self.tracks.values()], default=0)
RECURSIVE MaxLenUpTo(_, _)
MaxLenUpTo(samples, i) ==
    IF i < 0 THEN 0 ELSE IMax(Len(samples[i]), MaxLenUpTo(samples, i - 1))
MaxLen == MaxLenUpTo(AllSamples, NumTracks - 1)

\* (a sum that takes the muted tracks too)
RECURSIVE MonoSumAllUpTo(_, _, _, _)
MonoSumAllUpTo(samples, params, i, n) ==
    IF i < 0 THEN VZeros(n)
    ELSE VAdd(MonoSumAllUpTo(samples, params, i - 1, n), PadTo(samples[i], n))
\* mono_mix after the loop over the tracks 0..i
RECURSIVE MonoSumUpTo(_, _, _, _)
MonoSumUpTo(samples, params, i, n) ==
    IF i < 0 THEN VZeros(n)
    ELSE IF ~params[i].muted
         THEN VAdd(MonoSumUpTo(samples, params, i - 1, n), PadTo(samples[i], n))
         ELSE MonoSumUpTo(samples, params, i - 1, n)

NormalizeTarget == Rat(9, 10)

\* LiveMusicStudio.mix as a function of what it reads: the tracks' samples,
\* the track parameters and the master volume
MixOf(samples, params, volume) ==
    LET max_len == MaxLenUpTo(samples, NumTracks - 1)
    IN  IF max_len = 0 THEN [ndim |-> 1, rows |-> <<>>]
        ELSE LET mono_mix ==
                    VScale(Normalize(MonoSumUpTo(samples, params, NumTracks - 1,
                                                 max_len),
                                     NormalizeTarget),
                           volume)
             IN  [ndim |-> 2, rows |-> <<mono_mix, mono_mix>>]

\* the value of LiveMusicStudio.mix in the current state
MixValue == MixOf(AllSamples, track_parameters, master_volume)

\* (a mix that sums into the array of track 0 instead of a new one)
MixIntoTrack ==
    /\ UNCHANGED <<bufVars, dspVars, orchVars>>
    /\ ret' = Outcome("mix", <<>>, NoExc, 0, MixValue)
    /\ heap' = IF MixValue.ndim = 2
               THEN [heap EXCEPT ![tracks[0]] = MixValue.rows[1]]
               ELSE heap
    /\ UNCHANGED <<tracks, track_parameters, master_volume, tempo,
                   time_signature, held, opCount>>
\* LiveMusicStudio.mix: it only reads the studio, so the model lets it
\* follow any state.  mono_mix is a new array (np.zeros), "+=" and "*="
\* change that array in place, np.pad and np.stack make new arrays, and
\* mono_mix goes away when mix returns.
Mix ==
    /\ UNCHANGED <<bufVars, dspVars, orchVars>>
    /\ ret' = Outcome("mix", <<>>, NoExc, 0, MixValue)
    /\ heap' = IF MixValue.ndim = 2
               THEN LET mono_mix == NewRef(heap)
                    IN  Collect((mono_mix :> MixValue.rows[1]) @@ heap,
                                tracks, held)
               ELSE heap
    /\ UNCHANGED <<tracks, track_parameters, master_volume, tempo,
                   time_signature, held, opCount>>

\* LiveMusicStudio.set_tempo
SetTempo(bpm) ==
    /\ CanCall
    /\ tempo' = bpm
    /\ ret' = Outcome("set_tempo", <<bpm>>, NoExc, 0, NoMatrix)
    /\ opCount' = opCount + 1
    /\ UNCHANGED <<heap, tracks, track_parameters, master_volume, time_signature, held>>

\* LiveMusicStudio.set_time_signature
SetTimeSignature(numerator, denominator) ==
    /\ CanCall
    /\ time_signature' = <<numerator, denominator>>
    /\ ret' = Outcome("set_time_signature", <<numerator, denominator>>, NoExc, 0, NoMatrix)
    /\ opCount' = opCount + 1
    /\ UNCHANGED <<heap, tracks, track_parameters, master_volume, tempo, held>>

\* (a mute that makes an entry for a name it does not know)
SetMutedCreate(o, name, m) ==
    /\ CanCall
    /\ track_parameters' =
          [i \in DOMAIN track_parameters \cup {name} |->
              IF i = name
              THEN [name |-> i, muted |-> m, volume |-> ROne, pan |-> RZero,
                    effects |-> {}]
              ELSE track_parameters[i]]
    /\ opCount' = IF name \in TrackNames THEN opCount + 1 ELSE opCount
    /\ ret' = Outcome(o, <<name>>, NoExc, 0, NoMatrix)
    /\ UNCHANGED <<heap, tracks, master_volume, tempo, time_signature, held>>
\* LiveMusicStudio.mute_track and unmute_track: an unknown name is ignored
SetMuted(o, name, m) ==
    /\ CanCall
    /\ IF name \in TrackNames
       THEN /\ track_parameters' = [track_parameters EXCEPT ![name].muted = m]
            /\ opCount' = opCount + 1
       ELSE UNCHANGED <<track_parameters, opCount>>
    /\ ret' = Outcome(o, <<name>>, NoExc, 0, NoMatrix)
    /\ UNCHANGED <<heap, tracks, master_volume, tempo, time_signature, held>>

MuteTrack(name) == SetMuted("mute_track", name, TRUE)
UnmuteTrack(name) == SetMuted("unmute_track", name, FALSE)

(***************************************************************************)
(* The calls the model makes on the studio.                                *)
(***************************************************************************)
\* arrays the caller records
RecordArrays == {<<Rat(1, 2), RInt(-1), Rat(1, 4)>>}

\* notes: a quarter of the sample rate, 2 and 3 samples long
NoteA == <<RInt(SampleRate \div 4), Rat(1, 10)>>
NoteB == <<RInt(SampleRate \div 4), Rat(3, 20)>>
GenerateInputs ==
    {<<<<>>, "sine">>, <<<<NoteA>>, "sine">>, <<<<NoteA, NoteB>>, "square">>}

EffectInputs ==
    {<<"reverb", {<<"decay", Rat(1, 4)>>}>>,
     <<"reverb", {}>>,
     <<"delay", {<<"delay_time", Rat(1, 10)>>, <<"feedback", Rat(1, 2)>>}>>,
     <<"delay", {}>>,
     <<"compression", {<<"threshold", Rat(1, 10)>>, <<"ratio", RInt(2)>>}>>,
     <<"chorus", {<<"depth", Rat(1, 2)>>}>>}

VolumeInputs == {Rat(1, 2), RInt(2), RInt(-1)}
PanInputs == {RInt(-2), Rat(1, 2)}
TempoInputs == {140}
TimeSignatureInputs == {<<3, 4>>}

StudioNext ==
    \/ \E name \in AnyNames, audio \in RecordArrays : RecordNew(name, audio)
    \/ \E name \in AnyNames : RecordHeld(name)
    \/ \E name \in AnyNames, g \in GenerateInputs : GenerateTrack(name, g[1], g[2])
    \/ \E name \in AnyNames, e \in EffectInputs : ApplyEffect(name, e[1], e[2])
    \/ \E name \in AnyNames, v \in VolumeInputs : SetTrackVolume(name, v)
    \/ \E name \in AnyNames, p \in PanInputs : SetTrackPan(name, p)
    \/ \E name \in AnyNames : MuteTrack(name)
    \/ \E name \in AnyNames : UnmuteTrack(name)
    \/ \E bpm \in TempoInputs : SetTempo(bpm)
    \/ \E ts \in TimeSignatureInputs : SetTimeSignature(ts[1], ts[2])
    \/ Mix

(***************************************************************************)
(* Calls of the functions of InstrumentSynthesizer and EffectsProcessor,   *)
(* one call per run, on arguments drawn when the run starts.               *)
(***************************************************************************)
\* longest array handed to an effect
MaxAudio == 3
\* largest length asked of the envelope
MaxEnvelope == 10

\* the sample rates of the objects under test
DspRates == {20, 100}
\* InstrumentSynthesizer.parameters: as constructed; with a longer attack;
\* with attack, decay and release of no samples
DspParameters ==
    {SynthParameters,
     [SynthParameters EXCEPT !.attack = Rat(1, 10)],
     [attack |-> RZero, decay |-> RZero, sustain |-> Sustain, release |-> RZero]}
DspDurations == {Rat(1, 100), Rat(1, 10), Rat(13, 100), Rat(1, 5), Rat(1, 2)}
DspWaveforms == {"sine", "square", "sawtooth", "triangle", "noise"}
AudioValues == {RZero, Rat(1, 2), RInt(-1)}
DelayTimes == {RZero, Rat(1, 20), Rat(1, 10), Rat(1, 4)}
Targets == {Rat(9, 10), Rat(1, 2)}

\* a note: frequency a quarter of the sample rate
NoteCalls ==
    [kind : {"note"}, sample_rate : DspRates, parameters : DspParameters,
     quarter : {1, 3}, duration : DspDurations, waveform : DspWaveforms]
EnvelopeCalls ==
    [kind : {"envelope"}, sample_rate : DspRates, parameters : DspParameters,
     length : 0..MaxEnvelope]
AudioCalls ==
    [kind : {"audio"}, sample_rate : DspRates,
     audio : SeqsUpTo(AudioValues, MaxAudio),
     decay : {DefaultReverbDecay}, delay_time : DelayTimes,
     feedback : {DefaultFeedback}, threshold : {DefaultThreshold},
     ratio : {DefaultRatio}, target : Targets]

\* the frequency of a note call
Frequency(call) == Rat(call.quarter * call.sample_rate, 4)

\* np.max of an empty array
EmptyMaxError ==
    [type |-> "ValueError",
     msg |-> "zero-size array to reduction operation maximum which has no identity"]

DspOutcome(f, exc, v) == [fn |-> f, raised |-> exc, value |-> v]
NoOutcome == DspOutcome("none", NoExc, <<>>)

\* no call is made
DspIdle == dspIn = [kind |-> "none"] /\ dspOut = NoOutcome

DspInit ==
    /\ dspIn \in NoteCalls \cup EnvelopeCalls \cup AudioCalls
    /\ dspOut = NoOutcome

\* what a call leaves alone
DspFrame == UNCHANGED <<bufVars, studioVars, orchVars, dspIn>>

SynthesizeNoteCall ==
    /\ dspIn.kind = "note"
    /\ dspOut' = DspOutcome("synthesize_note", NoExc,
                            SynthesizeNoteOf(dspIn.sample_rate, dspIn.parameters,
                                             Frequency(dspIn), dspIn.duration,
                                             dspIn.waveform))
    /\ DspFrame

EnvelopeCall ==
    /\ dspIn.kind = "envelope"
    /\ dspOut' = DspOutcome("_envelope_adsr", NoExc,
                            EnvelopeOf(dspIn.sample_rate, dspIn.parameters,
                                       dspIn.length))
    /\ DspFrame

AddReverbCall ==
    /\ dspIn.kind = "audio"
    /\ dspOut' = DspOutcome("add_reverb", NoExc,
                            AddReverbOf(dspIn.sample_rate, dspIn.audio, dspIn.decay))
    /\ DspFrame

AddDelayCall ==
    /\ dspIn.kind = "audio"
    /\ dspOut' = DspOutcome("add_delay", NoExc,
                            AddDelayOf(dspIn.sample_rate, dspIn.audio,
                                       dspIn.delay_time, dspIn.feedback))
    /\ DspFrame

AddCompressionCall ==
    /\ dspIn.kind = "audio"
    /\ dspOut' = DspOutcome("add_compression", NoExc,
                            AddCompression(dspIn.audio, dspIn.threshold,
                                           dspIn.ratio))
    /\ DspFrame

\* EffectsProcessor.normalize: np.max(np.abs(audio)) raises on an empty array
NormalizeCall ==
    /\ dspIn.kind = "audio"
    /\ dspOut' = IF dspIn.audio = <<>>
                 THEN DspOutcome("normalize", EmptyMaxError, <<>>)
                 ELSE DspOutcome("normalize", NoExc,
                                 Normalize(dspIn.audio, dspIn.target))
    /\ DspFrame

DspNext ==
    \/ SynthesizeNoteCall
    \/ EnvelopeCall
    \/ AddReverbCall
    \/ AddDelayCall
    \/ AddCompressionCall
    \/ NormalizeCall

(***************************************************************************)
(* ModuleOrchestrator                                                      *)
(***************************************************************************)
\* calls on the orchestrator, per run
MaxCalls == 4
\* largest limit handed to get_event_log
MaxLimit == 2

\* the names process_music_request looks up
ModuleNames == {"chatgpt", "studio", "model"}
\* ModuleState
ModuleStates == {"idle", "processing", "ready", "error"}
\* the callbacks the caller registers: one returns, one raises an Exception
Callbacks == {[id |-> 1, raises |-> FALSE], [id |-> 2, raises |-> TRUE]}
\* the events the caller registers callbacks for and emits
EventNames == {"interpretation_complete", "beat"}
\* "tempo" of ChatGPTModule._parse_response_to_json
InterpretationTempo == 120

\* the outcome of a call: the list returned by get_event_log and whether it
\* is the orchestrator's own list object, and the callbacks an emit_event
\* invoked, each with the length of the log it found
OrchOutcome(o, a, v, inv) ==
    [op |-> o, args |-> a, value |-> v, aliased |-> FALSE, invoked |-> inv]

OrchInit ==
    /\ modules = {}
    /\ module_states = <<>>
    /\ event_log = <<>>
    /\ callbacks = <<>>
    /\ orchRet = OrchOutcome("init", <<>>, <<>>, <<>>)
    /\ orchOps = 0

\* ModuleOrchestrator._log_event (the timestamp is left out)
LogEvent(log, event_type, event_data) ==
    Append(log, [type |-> event_type, data |-> event_data])

\* (a loop over the callbacks that ends at the first one that raises)
RECURSIVE RunCallbacksUntilError(_, _, _, _)
RunCallbacksUntilError(cbs, event_name, log, invoked) ==
    IF cbs = <<>> THEN [log |-> log, invoked |-> invoked]
    ELSE LET callback == Head(cbs)
             called == Append(invoked, [id |-> callback.id, seen |-> Len(log)])
         IN  IF callback.raises
             THEN [log |-> LogEvent(log, "callback_error", <<event_name>>),
                   invoked |-> called]
             ELSE RunCallbacksUntilError(Tail(cbs), event_name, log, called)
\* the for loop of emit_event: each callback is called, and one that raises
\* leaves a callback_error in the log
RECURSIVE RunCallbacks(_, _, _, _)
RunCallbacks(cbs, event_name, log, invoked) ==
    IF cbs = <<>> THEN [log |-> log, invoked |-> invoked]
    ELSE LET callback == Head(cbs)
             called == Append(invoked, [id |-> callback.id, seen |-> Len(log)])
             logged == IF callback.raises
                       THEN LogEvent(log, "callback_error", <<event_name>>)
                       ELSE log
         IN  RunCallbacks(Tail(cbs), event_name, logged, called)

\* ModuleOrchestrator.emit_event, as a function of the log
Emit(log, event_name, event_data) ==
    LET logged == LogEvent(log, event_name, event_data)
    IN  IF event_name \in DOMAIN callbacks
        THEN RunCallbacks(callbacks[event_name], event_name, logged, <<>>)
        ELSE [log |-> logged, invoked |-> <<>>]

\* ModuleOrchestrator.set_module_state, as a function of the module states
\* and the log
SetState(st, module_name, state) ==
    IF module_name \in DOMAIN st.states
    THEN [states |-> [st.states EXCEPT ![module_name] = state],
          log |-> LogEvent(st.log, "state_change", <<module_name, state>>)]
    ELSE st

\* a call on the orchestrator can start; the other objects are left alone
CanCallOrch == orchOps < MaxCalls /\ UNCHANGED <<bufVars, dspVars>>
\* the orchestrator leaves the studio alone
StudioKept ==
    UNCHANGED <<heap, tracks, track_parameters, master_volume, tempo,
                time_signature, held, ret, opCount>>

\* ModuleOrchestrator.register_module
RegisterModule(module_name) ==
    /\ CanCallOrch /\ StudioKept
    /\ modules' = modules \cup {module_name}
    /\ module_states' = (module_name :> "ready") @@ module_states
    /\ event_log' = LogEvent(event_log, "module_registered", <<module_name>>)
    /\ orchRet' = OrchOutcome("register_module", <<module_name>>, <<>>, <<>>)
    /\ orchOps' = orchOps + 1
    /\ UNCHANGED callbacks

\* ModuleOrchestrator.unregister_module
UnregisterModule(module_name) ==
    /\ CanCallOrch /\ StudioKept
    /\ IF module_name \in modules
       THEN /\ modules' = modules \ {module_name}
            /\ module_states' =
                  [m \in DOMAIN module_states \ {module_name} |-> module_states[m]]
            /\ event_log' = LogEvent(event_log, "module_unregistered", <<module_name>>)
       ELSE UNCHANGED <<modules, module_states, event_log>>
    /\ orchRet' = OrchOutcome("unregister_module", <<module_name>>, <<>>, <<>>)
    /\ orchOps' = orchOps + 1
    /\ UNCHANGED callbacks

\* ModuleOrchestrator.set_module_state
SetModuleState(module_name, state) ==
    /\ CanCallOrch /\ StudioKept
    /\ LET after == SetState([states |-> module_states, log |-> event_log],
                             module_name, state)
       IN  module_states' = after.states /\ event_log' = after.log
    /\ orchRet' = OrchOutcome("set_module_state", <<module_name, state>>, <<>>, <<>>)
    /\ orchOps' = orchOps + 1
    /\ UNCHANGED <<modules, callbacks>>

\* ModuleOrchestrator.on_event
OnEvent(event_name, callback) ==
    /\ CanCallOrch /\ StudioKept
    /\ callbacks' = IF event_name \in DOMAIN callbacks
                    THEN [callbacks EXCEPT ![event_name] = Append(@, callback)]
                    ELSE (event_name :> <<callback>>) @@ callbacks
    /\ orchRet' = OrchOutcome("on_event", <<event_name, callback.id>>, <<>>, <<>>)
    /\ orchOps' = orchOps + 1
    /\ UNCHANGED <<modules, module_states, event_log>>

\* ModuleOrchestrator.emit_event
EmitEvent(event_name, event_data) ==
    /\ CanCallOrch /\ StudioKept
    /\ LET after == Emit(event_log, event_name, event_data)
       IN  /\ event_log' = after.log
           /\ orchRet' = OrchOutcome("emit_event", <<event_name, event_data>>,
                                     <<>>, after.invoked)
    /\ orchOps' = orchOps + 1
    /\ UNCHANGED <<modules, module_states, callbacks>>

\* ModuleOrchestrator.process_music_request; the module registered as
\* "studio" is the LiveMusicStudio, the one registered as "chatgpt" the
\* ChatGPTModule, whose interpretation has a tempo
ProcessMusicRequest ==
    /\ CanCallOrch
    /\ LET chatgpt == "chatgpt" \in modules
           studio == "studio" \in modules
           model == "model" \in modules
           started == [states |-> module_states,
                       log |-> LogEvent(event_log, "music_request_started", <<>>)]
           stage1 == SetState(started, "chatgpt", "processing")
           interpreted ==
               IF chatgpt
               THEN [stage1 EXCEPT
                        !.log = Emit(@, "interpretation_complete",
                                     <<InterpretationTempo>>).log]
               ELSE stage1
           stage2 == SetState(interpreted, "studio", "processing")
           set_up ==
               IF studio /\ chatgpt
               THEN [stage2 EXCEPT
                        !.log = Emit(@, "studio_ready", <<InterpretationTempo>>).log]
               ELSE stage2
           stage3 == IF model THEN SetState(set_up, "model", "processing") ELSE set_up
           ready1 == SetState(stage3, "chatgpt", "ready")
           ready2 == SetState(ready1, "studio", "ready")
       IN  /\ module_states' = ready2.states
           /\ event_log' = LogEvent(ready2.log, "music_request_completed", <<>>)
           /\ tempo' = IF studio /\ chatgpt THEN InterpretationTempo ELSE tempo
           /\ orchRet' = OrchOutcome("process_music_request", <<Len(event_log)>>,
                                     <<>>, <<>>)
    /\ orchOps' = orchOps + 1
    /\ UNCHANGED <<modules, callbacks, heap, tracks, track_parameters,
                   master_volume, time_signature, held, ret, opCount>>

\* ModuleOrchestrator.collaborate_modules
CollaborateModules(task) ==
    /\ CanCallOrch /\ StudioKept
    /\ event_log' = LogEvent(LogEvent(event_log, "collaboration_started", <<task>>),
                             "collaboration_complete", <<task>>)
    /\ orchRet' = OrchOutcome("collaborate_modules", <<task>>, <<>>, <<>>)
    /\ orchOps' = orchOps + 1
    /\ UNCHANGED <<modules, module_states, callbacks>>

\* ModuleOrchestrator.save_session and load_session: open() raises before
\* anything is logged, or the call logs one event
SessionFile(o, opened) ==
    /\ CanCallOrch /\ StudioKept
    /\ event_log' = IF opened
                    THEN LogEvent(event_log,
                                  IF o = "save_session" THEN "session_saved"
                                  ELSE "session_loaded", <<>>)
                    ELSE event_log
    /\ orchRet' = OrchOutcome(o, <<opened>>, <<>>, <<>>)
    /\ orchOps' = orchOps + 1
    /\ UNCHANGED <<modules, module_states, callbacks>>

\* the last n entries of a list: log[-n:] for n >= 1
LastEntries(log, n) ==
    IF n >= Len(log) THEN log ELSE SubSeq(log, Len(log) - n + 1, Len(log))

\* ModuleOrchestrator.get_event_log, called with a limit or without one
\* (limit is None): "if limit:" is false for None and for 0; both the slice
\* and copy() are new lists
GetEventLog(given, limit) ==
    /\ UNCHANGED <<bufVars, dspVars>> /\ StudioKept
    /\ orchRet' = OrchOutcome("get_event_log", <<given, limit>>,
                              IF given /\ limit # 0
                              THEN LastEntries(event_log, limit)
                              ELSE event_log,
                              <<>>)
    /\ UNCHANGED <<modules, module_states, event_log, callbacks, orchOps>>

\* the caller removes the last entry of the list get_event_log returned
CallerPops ==
    /\ UNCHANGED <<bufVars, dspVars>> /\ StudioKept
    /\ orchRet.op = "get_event_log"
    /\ orchRet.value # <<>>
    /\ orchRet' = [orchRet EXCEPT !.op = "caller_pops",
                                  !.value = SubSeq(@, 1, Len(@) - 1)]
    /\ event_log' = IF orchRet.aliased
                    THEN SubSeq(event_log, 1, Len(event_log) - 1)
                    ELSE event_log
    /\ UNCHANGED <<modules, module_states, callbacks, orchOps>>

OrchNext ==
    \/ \E m \in ModuleNames : RegisterModule(m)
    \/ \E m \in ModuleNames : UnregisterModule(m)
    \/ \E m \in ModuleNames, st \in {"processing", "error"} : SetModuleState(m, st)
    \/ \E e \in EventNames, cb \in Callbacks : OnEvent(e, cb)
    \/ \E e \in EventNames : EmitEvent(e, <<>>)
    \/ ProcessMusicRequest
    \/ CollaborateModules("compose")
    \/ \E o \in {"save_session", "load_session"}, opened \in BOOLEAN : SessionFile(o, opened)
    \/ \E limit \in 0..MaxLimit : GetEventLog(TRUE, limit)
    \/ GetEventLog(FALSE, 0)
    \/ CallerPops

(***************************************************************************)
(* Specifications.  One object is exercised at a time: the calls on an     *)
(* AudioBuffer from several threads, the calls on a LiveMusicStudio from   *)
(* one, the calls on a ModuleOrchestrator, or one call of a synthesizer or *)
(* effect function; the other objects stay as constructed.                 *)
(***************************************************************************)
vars == <<bufVars, studioVars, dspVars, orchVars>>

Init == BufInit /\ StudioInit /\ OrchInit /\ DspIdle

BufNext == \E t \in Threads : BufCall(t) \/ Acquire(t) \/ BufBody(t)

BufSpec == Init /\ [][BufNext]_vars

\* Fair scheduling: a thread that can run inside its with block eventually
\* does, and a thread that waits for a lock that is free again and again
\* eventually gets it.  Nothing obliges a thread to start a new call.
BufFairSpec ==
    /\ BufSpec
    /\ \A t \in Threads : WF_vars(BufBody(t)) /\ SF_vars(Acquire(t))

StudioSpec == Init /\ [][StudioNext]_vars

OrchSpec == Init /\ [][OrchNext]_vars

\* one call of a synthesizer or effect function, on every argument drawn
DspStart == BufInit /\ StudioInit /\ OrchInit /\ DspInit

DspSpec == DspStart /\ [][DspNext]_vars

(***************************************************************************)
(* Properties of the track registry.                                       *)
(***************************************************************************)
\* what the studio holds: every track's samples, the track parameters and
\* the global settings
StudioState ==
    <<[i \in TrackNames |-> Samples(i)], track_parameters, master_volume,
      tempo, time_signature>>

\* the operations that are specified to fail on an unknown track name
FailingOps ==
    {"record_track", "generate_track", "apply_effect", "set_track_volume",
     "set_track_pan"}

\* the operations of the track registry
RegistryOps ==
    FailingOps \cup {"mute_track", "unmute_track", "mix"}

\* the operations that change a track's samples
MutatingOps ==
    {"record_track", "generate_track", "apply_effect", "set_track_volume"}

\* the last call named this track
Named(name) == Len(ret.args) > 0 /\ ret.args[1] = name

\* the last call named a track that was never initialized
NamedUnknown == Len(ret.args) > 0 /\ ret.args[1] \notin TrackNames

\* the last call named an initialized track, or was mix, which names none
NamedExisting == ret.op = "mix" \/ (Len(ret.args) > 0 /\ ret.args[1] \in TrackNames)

\* C7: recordTrack, generateTrack, applyEffect, setVolume and setPan called
\* with a track name that was never initialized each fail with NotFound, and
\* the failed call leaves the whole studio state unchanged.
C7_UnknownNameFailsNotFound ==
    [][(ret'.op \in FailingOps /\ NamedUnknown')
          => (ret'.raised = NotFound /\ StudioState' = StudioState)]_vars

\* C8: NotFound is the only error the registry raises: every registry call
\* that names an existing track (and every mix) completes without raising,
\* whatever its arguments, an empty note sequence for generateTrack, an
\* unrecognized effect kind and a track with empty samples included.
C8_OnlyNotFoundIsRaised ==
    /\ ret.raised \in {NoExc, NotFound}
    /\ (ret.op \in RegistryOps /\ NamedExisting) => ret.raised = NoExc

\* C9: a track's samples are owned by that track alone: a mutation applied
\* to one track changes the samples of no other track, also when the same
\* array was recorded for two tracks, and changes no array the caller still
\* holds (the argument of recordTrack, the return value of generateTrack).
C9_SamplesExclusivelyOwned ==
    [][(ret'.op \in MutatingOps /\ ret'.raised = NoExc /\ opCount' = opCount + 1)
          => /\ \A i \in TrackNames : ~Named(i)' => Samples(i)' = Samples(i)
             /\ (held # 0 /\ held' = held) => heap'[held] = heap[held]]_vars

\* the array the effect kind makes of audio with the parameters of kwargs:
\* feedback is the gain of the delayed tap, ratio the divisor above threshold
SuppliedEffect(effect_type, audio, kwargs) ==
    CASE effect_type = "reverb" ->
            AddReverb(audio, Get(kwargs, "decay", DefaultReverbDecay))
      [] effect_type = "delay" ->
            AddDelay(audio, Get(kwargs, "delay_time", DefaultDelayTime),
                     Get(kwargs, "feedback", DefaultFeedback))
      [] effect_type = "compression" ->
            AddCompression(audio, Get(kwargs, "threshold", DefaultThreshold),
                           Get(kwargs, "ratio", DefaultRatio))

\* C10: applyEffect transforms the track's samples with the parameters
\* supplied in params, the same ones it records in the track's effects: the
\* supplied feedback for delay, the supplied ratio for compression.
C10_EffectUsesSuppliedParams ==
    [][(ret'.op = "apply_effect" /\ ret'.raised = NoExc /\ opCount' = opCount + 1
        /\ ret'.args[2] \in KnownEffects)
          => LET name == ret'.args[1]
                 effect_type == ret'.args[2]
                 kwargs == ret'.args[3]
             IN  /\ track_parameters'[name].effects
                       = Put(track_parameters[name].effects, effect_type, kwargs)
                 /\ heap'[tracks'[name]]
                       = SuppliedEffect(effect_type, Samples(name), kwargs)]_vars

(***************************************************************************)
(* Properties of effects, generation and track parameters.                 *)
(***************************************************************************)
\* the last step was a call of o that returned and changed the studio
Did(o) == ret'.op = o /\ ret'.raised = NoExc /\ opCount' = opCount + 1

\* the parameter sets recorded for a track under an effect kind
RecordedIn(params, name, effect_type) ==
    {p[2] : p \in {q \in params[name].effects : q[1] = effect_type}}
Recorded(name, effect_type) == RecordedIn(track_parameters, name, effect_type)

\* the recorded effects of a track of every kind but one
OtherEffectsIn(params, name, effect_type) ==
    {q \in params[name].effects : q[1] # effect_type}

\* C11: applying an effect kind to a track, a second time included, leaves
\* exactly one recorded parameter set for that kind, the one of this call,
\* and the recorded parameters of the other kinds as they were, while the
\* samples are the effect applied to the samples the track had, which hold
\* the earlier applications.
C11_EffectOverwritesRecord ==
    [][Did("apply_effect")
          => LET name == ret'.args[1]
                 effect_type == ret'.args[2]
                 kwargs == ret'.args[3]
             IN  /\ RecordedIn(track_parameters', name, effect_type) = {kwargs}
                 /\ OtherEffectsIn(track_parameters', name, effect_type)
                       = OtherEffectsIn(track_parameters, name, effect_type)
                 /\ heap'[tracks'[name]]
                       = IF effect_type \in KnownEffects
                         THEN EffectOutput(effect_type, Samples(name), kwargs)
                         ELSE Samples(name)]_vars

\* reverb with decay 1/4 and then reverb with the default decay were applied
\* to the recorded array: one parameter set is recorded, both echoes are in
\* the samples
C11_Witness ==
    \E name \in TrackNames, audio \in RecordArrays :
        /\ ret.op = "apply_effect" /\ ret.raised = NoExc
        /\ ret.args = <<name, "reverb", {}>>
        /\ Recorded(name, "reverb") = {{}}
        /\ Samples(name) = AddReverb(AddReverb(audio, Rat(1, 4)), DefaultReverbDecay)
        /\ Samples(name) # AddReverb(audio, DefaultReverbDecay)

\* the number of samples a delay of delay_time shifts by
DelaySamples(kwargs) ==
    RTrunc(RMul(Get(kwargs, "delay_time", DefaultDelayTime), RInt(SampleRate)))

\* C12: a track's length is the length of the array its last successful
\* recordTrack or generateTrack stored: such a call sets it, and no other
\* call (applyEffect of any kind and delay time, setVolume, setPan, mute,
\* unmute, mix, a failed call) changes the length of any track.
C12_OnlyRecordSetsLength ==
    [][\A i \in TrackNames :
          IF (Did("record_track") \/ Did("generate_track")) /\ Named(i)'
          THEN Len(Samples(i))' = Len(heap'[held'])
          ELSE Len(Samples(i))' = Len(Samples(i))]_vars

\* a delay longer than the track was applied to a track that has samples
C12_Witness ==
    /\ ret.op = "apply_effect" /\ ret.raised = NoExc
    /\ ret.args[2] = "delay"
    /\ Len(Samples(ret.args[1])) > 0
    /\ DelaySamples(ret.args[3]) > Len(Samples(ret.args[1]))

\* the sum of the sample counts of the notes
RECURSIVE SumNoteLengths(_)
SumNoteLengths(notes) ==
    IF notes = <<>> THEN 0
    ELSE NoteLength(Head(notes)[2]) + SumNoteLengths(Tail(notes))

\* C13: generateTrack(name, notes, waveform) on an existing track stores the
\* concatenation, in note order, of the oscillator output of each
\* (frequency, duration) pair in place of the previous samples; the stored
\* length is the sum of the per-note sample counts.
C13_GenerateStoresConcatenation ==
    [][(ret'.op = "generate_track" /\ ret'.args[1] \in TrackNames)
          => LET name == ret'.args[1]
                 notes == ret'.args[2]
                 waveform == ret'.args[3]
             IN  /\ ret'.raised = NoExc
                 /\ heap'[tracks'[name]] = VConcat(NoteSegments(notes, waveform))
                 /\ Len(heap'[tracks'[name]]) = SumNoteLengths(notes)]_vars

\* C14: setVolume compounds: each call multiplies the samples the track has
\* at the call by the clamped new volume, so two calls leave the original
\* times both clamped volumes, while the recorded volume is the clamped
\* volume of the last call alone.
C14_VolumeCompounds ==
    [][Did("set_track_volume")
          => LET name == ret'.args[1]
                 v == Clamp(RZero, ROne, ret'.args[2])
             IN  /\ heap'[tracks'[name]] = VScale(Samples(name), v)
                 /\ track_parameters'[name].volume = v]_vars

\* setVolume(1/2) twice in a row on a recorded array: the samples are a
\* quarter of the recorded ones, the recorded volume is 1/2
C14_Witness ==
    \E name \in TrackNames, audio \in RecordArrays :
        /\ ret.op = "set_track_volume" /\ ret.raised = NoExc
        /\ ret.args = <<name, Rat(1, 2)>>
        /\ Samples(name) = VScale(audio, Rat(1, 4))
        /\ track_parameters[name].volume = Rat(1, 2)

\* every recorded volume is in [0, 1] and every recorded pan in [-1, 1]
ParametersInRange ==
    \A i \in TrackNames :
        /\ RLe(RZero, track_parameters[i].volume)
        /\ RLe(track_parameters[i].volume, ROne)
        /\ RLe(RInt(-1), track_parameters[i].pan)
        /\ RLe(track_parameters[i].pan, ROne)

\* C15: in every reachable state every track's recorded volume lies in
\* [0, 1] and its recorded pan in [-1, 1], whatever was passed to setVolume
\* and setPan; setPan changes the recorded pan of its track and nothing else,
\* the samples in particular.
C15_ParametersClamped ==
    /\ []ParametersInRange
    /\ [][Did("set_track_pan")
             => LET name == ret'.args[1]
                IN  /\ track_parameters'
                          = [track_parameters EXCEPT
                                ![name].pan = Clamp(RInt(-1), ROne, ret'.args[2])]
                    /\ UNCHANGED <<heap, tracks, master_volume, tempo,
                                   time_signature>>]_vars

\* setPan was called with a pan below -1 and recorded -1, on a studio where
\* a track's volume had been set from a negative value and recorded as 0
C15_Witness ==
    /\ ret.op = "set_track_pan" /\ ret.raised = NoExc
    /\ RLt(ret.args[2], RInt(-1))
    /\ track_parameters[ret.args[1]].pan = RInt(-1)
    /\ \E i \in TrackNames :
          track_parameters[i].volume = RZero /\ Len(Samples(i)) > 0

\* the parameters _initialize_tracks gives track i
DefaultParameters(i) ==
    [name |-> i, muted |-> FALSE, volume |-> ROne, pan |-> RZero, effects |-> {}]

\* C16: the set of tracks is fixed at construction: the studio holds exactly
\* track_0 .. track_{N-1}, each with empty samples and default parameters
\* until a call changes the studio, and after any sequence of calls, failed
\* ones and mute/unmute of unknown names included, the names are the same.
C16_TrackSetFixed ==
    /\ DOMAIN tracks = TrackNames
    /\ DOMAIN track_parameters = TrackNames
    /\ \A i \in TrackNames : track_parameters[i].name = i
    /\ opCount = 0 =>
          \A i \in TrackNames :
              Samples(i) = <<>> /\ track_parameters[i] = DefaultParameters(i)

\* an unknown name was muted or unmuted on a studio that calls had changed
C16_Witness ==
    /\ ret.op \in {"mute_track", "unmute_track"}
    /\ NamedUnknown
    /\ opCount > 0
    /\ \E i \in TrackNames : Samples(i) # <<>>

(***************************************************************************)
(* Properties of mix.  mix changes nothing, so while ret holds the outcome *)
(* of a mix the studio is the one that mix read.                           *)
(***************************************************************************)
Unmuted == {i \in TrackNames : ~track_parameters[i].muted}

\* C17: the channels mix returns are as long as the longest track, muted
\* tracks included; shorter tracks count as padded with trailing zeros,
\* nothing is cut off, and when no track has samples the result is empty.
C17_MixLengthIsLongestTrack ==
    ret.op = "mix" =>
        LET rows == ret.matrix.rows
        IN  IF \A i \in TrackNames : Samples(i) = <<>>
            THEN rows = <<>>
            ELSE /\ Len(rows) > 0
                 /\ \A k \in 1..Len(rows) :
                       /\ \A i \in TrackNames : Len(Samples(i)) <= Len(rows[k])
                       /\ \E i \in TrackNames : Len(Samples(i)) = Len(rows[k])
                       /\ \A j \in 1..Len(rows[k]) :
                             (\A i \in Unmuted : j > Len(Samples(i)))
                                => rows[k][j] = RZero

\* scenario B: mix of a shorter unmuted track and a longer muted one
C17_Witness ==
    /\ ret.op = "mix"
    /\ \E i \in Unmuted, j \in TrackNames \ Unmuted :
          /\ 0 < Len(Samples(i)) /\ Len(Samples(i)) < Len(Samples(j))
          /\ Len(ret.matrix.rows[1]) = Len(Samples(j))
          /\ \E n \in 1..Len(Samples(i)) : ret.matrix.rows[1][n] # RZero

\* a track adds nothing to the sum: it is muted, or its samples are all zero
Silent(i) ==
    track_parameters[i].muted \/ \A j \in 1..Len(Samples(i)) : Samples(i)[j] = RZero

\* the tracks' samples with every sample of every muted track replaced by c
MutedReplaced(c) ==
    [i \in TrackNames |->
        IF track_parameters[i].muted THEN Full(Len(Samples(i)), c) ELSE Samples(i)]

\* sample values to put in place of those of the muted tracks
OtherValues == {RZero, ROne, Rat(-1, 3)}

\* C18: a muted track contributes zero to every sample of the mix: the
\* studio with the samples of its muted tracks replaced by other values of
\* the same length, zeros among them, gives the same mix; mute and unmute
\* leave all samples intact, and after unmute the track is in the mix again:
\* when no other track sounds, the channels are its normalized samples.
C18_MutedTracksDoNotSound ==
    /\ [](\A c \in OtherValues :
             MixOf(MutedReplaced(c), track_parameters, master_volume) = MixValue)
    /\ [](\A n \in TrackNames :
             ( /\ ret.op = "unmute_track" /\ Named(n)
               /\ ~Silent(n)
               /\ \A i \in TrackNames \ {n} : Silent(i) )
             => MixValue.rows
                   = LET mono == VScale(Normalize(PadTo(Samples(n), MaxLen),
                                                  NormalizeTarget),
                                        master_volume)
                     IN  <<mono, mono>>)
    /\ [][(Did("mute_track") \/ Did("unmute_track"))
             => \A i \in TrackNames : Samples(i)' = Samples(i)]_vars

\* a muted track and an unmuted track both hold samples that are not zero
C18_Witness ==
    \E i \in TrackNames \ Unmuted, j \in Unmuted :
        /\ \E n \in 1..Len(Samples(i)) : Samples(i)[n] # RZero
        /\ ~Silent(j)


\* C19: in every studio state, the fresh studio whose tracks are all empty
\* included, mix returns a matrix of two rows (channel x sample), and the
\* left and the right row are identical.
C19_MixIsTwoIdenticalRows ==
    ret.op = "mix" =>
        /\ ret.raised = NoExc
        /\ ret.matrix.ndim = 2
        /\ Len(ret.matrix.rows) = 2
        /\ ret.matrix.rows[1] = ret.matrix.rows[2]

\* the sum of the unmuted tracks, each padded to the longest track
UnmutedSum == MonoSumUpTo(AllSamples, track_parameters, NumTracks - 1, MaxLen)

\* C20: when the sum of the unmuted tracks is not all zero, the peak
\* absolute value of each channel of the mix is 0.9 x master_volume, whatever
\* the number of tracks and their volumes; when the sum is all zero and some
\* track is not empty, the mix is all zeros of the length of the longest track.
C20_MixPeakIsNormalized ==
    (ret.op = "mix" /\ \E i \in TrackNames : Samples(i) # <<>>) =>
        LET rows == ret.matrix.rows
        IN  /\ Len(rows) = 2
            /\ \A k \in 1..2 :
                  IF \E j \in 1..MaxLen : UnmutedSum[j] # RZero
                  THEN VPeak(rows[k]) = RMul(Rat(9, 10), master_volume)
                  ELSE rows[k] = VZeros(MaxLen)

\* a mix of two sounding tracks, one of them with its volume turned down,
\* whose sum has another peak than 0.9
C20_Witness ==
    /\ ret.op = "mix"
    /\ \A i \in TrackNames : ~Silent(i)
    /\ \E i \in TrackNames : track_parameters[i].volume # ROne
    /\ VPeak(UnmutedSum) # Rat(9, 10)
    /\ VPeak(ret.matrix.rows[1]) = Rat(9, 10)

\* C21: the mixer only reads: mix leaves the samples of every track, the
\* parameters of every track, tempo, time signature and master volume as
\* they are, so a mix that follows a mix returns the same matrix.
C21_MixOnlyReads ==
    [][ /\ ret'.op = "mix" =>
              /\ \A i \in TrackNames : heap'[tracks'[i]] = Samples(i)
              /\ UNCHANGED <<tracks, track_parameters, master_volume, tempo,
                             time_signature>>
        /\ (ret.op = "mix" /\ ret'.op = "mix") => ret'.matrix = ret.matrix
      ]_vars

\* mix has returned a matrix in a studio with a muted track and a track
\* whose volume was turned down
C21_Witness ==
    /\ ret.op = "mix"
    /\ ret.matrix.ndim = 2
    /\ \E i \in TrackNames : Samples(i) # <<>> /\ track_parameters[i].volume # ROne
    /\ \E i \in TrackNames : track_parameters[i].muted

(***************************************************************************)
(* Properties of the synthesizer and of the effects.                       *)
(***************************************************************************)
\* the call made was synthesize_note
Synthesized == dspOut.fn = "synthesize_note"

\* round(): to the nearest integer, a half to the even one
Round(a) ==
    LET low == RFloor(a)
        rest == RSub(a, RInt(low))
    IN  IF RLt(rest, Rat(1, 2)) THEN low
        ELSE IF RLt(Rat(1, 2), rest) THEN low + 1
        ELSE IF low % 2 = 0 THEN low ELSE low + 1

\* C22: for every frequency f > 0, duration d > 0 and sample rate, the
\* oscillator returns exactly round(d x sample_rate) samples, also when
\* d x sample_rate is not an integer.
C22_NoteLengthIsRounded ==
    Synthesized =>
        Len(dspOut.value) = Round(RMul(dspIn.duration, RInt(dspIn.sample_rate)))

\* the envelope of the note synthesized, and its release ramp
NoteEnvelope ==
    EnvelopeOf(dspIn.sample_rate, dspIn.parameters, Len(dspOut.value))
ReleaseRamp ==
    EnvelopeSegments(dspIn.sample_rate, dspIn.parameters, Len(dspOut.value))[4]
NoteSignal ==
    Signal(dspIn.sample_rate, Frequency(dspIn), dspIn.duration, dspIn.waveform)

\* C23: for every frequency f > 0 and duration d > 0, notes shorter than
\* attack + decay + release included, the first and the last sample of the
\* note are small relative to the peak: the envelope starts at 0, so the
\* first sample is 0, and the multiplier of the last sample is the end of
\* the release ramp.
C23_NoteStartsAndEndsQuiet ==
    (Synthesized /\ dspOut.value # <<>>) =>
        LET n == Len(dspOut.value)
            release_end == ReleaseRamp[Len(ReleaseRamp)]
        IN  /\ NoteEnvelope[1] = RZero
            /\ dspOut.value[1] = RZero
            /\ NoteEnvelope[n] = release_end
            /\ dspOut.value[n] = RMul(RMul(NoteSignal[n], release_end), Amplitude)

\* the call made was one of the four effect functions
EffectFunctions == {"add_reverb", "add_delay", "add_compression", "normalize"}

\* C24: the effect functions are total: reverb, delay, compression and
\* normalize each return, without raising, a sequence as long as the input,
\* for every finite sample sequence, the empty one and an all-zero one
\* included.
C24_EffectsAreTotal ==
    dspOut.fn \in EffectFunctions =>
        /\ dspOut.raised = NoExc
        /\ Len(dspOut.value) = Len(dspIn.audio)

\* the samples of the input that are not zero
NonZero(audio) == {i \in 1..Len(audio) : audio[i] # RZero}

\* C25: normalize(x, target) on an input with a sample that is not zero
\* returns x scaled by target/peak: the peak of the result is target, and
\* every sample keeps its sign and its magnitude relative to the others; on
\* an all-zero input it returns the input unchanged.
C25_NormalizeScalesToTarget ==
    dspOut.fn = "normalize" =>
        LET x == dspIn.audio
            y == dspOut.value
        IN  /\ dspOut.raised = NoExc
            /\ IF NonZero(x) # {}
               THEN /\ y = VScale(x, RDiv(dspIn.target, VPeak(x)))
                    /\ VPeak(y) = dspIn.target
                    /\ \A i \in 1..Len(x) : RSign(y[i]) = RSign(x[i])
                    /\ \A i, j \in 1..Len(x) :
                          RMul(y[i], x[j]) = RMul(y[j], x[i])
               ELSE y = x

\* C27: the envelope generator returns exactly N multipliers for every
\* N >= 0 and every combination of attack, decay and release sample counts,
\* counts of 0 (floored to one sample each) and attack + decay + release
\* greater than N (sustain empty, concatenation cut) included.
C27_EnvelopeHasLengthAsked ==
    dspOut.fn = "_envelope_adsr" => Len(dspOut.value) = dspIn.length

\* an envelope of N > 0 multipliers from segments that are longer together,
\* with an attack count of 0
C27_Witness ==
    /\ dspOut.fn = "_envelope_adsr"
    /\ dspIn.length > 0
    /\ Len(dspOut.value) = dspIn.length
    /\ RTrunc(RMul(dspIn.parameters.attack, RInt(dspIn.sample_rate))) = 0
    /\ Len(EnvelopeUncut(dspIn.sample_rate, dspIn.parameters, dspIn.length))
          > dspIn.length

\* the shift and the gain of the echo the call made adds
EchoShift ==
    IF dspOut.fn = "add_reverb"
    THEN RTrunc(RMul(Rat(5, 100), RInt(dspIn.sample_rate)))
    ELSE RTrunc(RMul(dspIn.delay_time, RInt(dspIn.sample_rate)))
EchoGain == IF dspOut.fn = "add_reverb" THEN dspIn.decay ELSE dspIn.feedback

\* C28: reverb and delay are single-tap shift-and-add: with shift s (50 ms
\* of samples for reverb, delay_time seconds of samples for delay) and gain
\* g, the i-th output is x[i] for i < s and x[i] + g * x[i - s] for i >= s
\* (i counted from 0), taken from the input only; with s >= len(x) the
\* output is the input.
C28_EchoIsSingleTap ==
    dspOut.fn \in {"add_reverb", "add_delay"} =>
        LET x == dspIn.audio
            y == dspOut.value
        IN  /\ Len(y) = Len(x)
            /\ \A i \in 1..Len(x) :
                  y[i] = IF i <= EchoShift THEN x[i]
                         ELSE RAdd(x[i], RMul(EchoGain, x[i - EchoShift]))
            /\ EchoShift >= Len(x) => y = x

\* a delay of one sample on three samples: the third output has the echo of
\* the second input, not that of the second output
C28_Witness ==
    /\ dspOut.fn = "add_delay"
    /\ EchoShift = 1
    /\ Len(dspIn.audio) = 3
    /\ \A i \in 1..3 : dspIn.audio[i] # RZero
    /\ dspOut.value[3] = RAdd(dspIn.audio[3], RMul(EchoGain, dspIn.audio[2]))
    /\ dspOut.value[3] # RAdd(dspIn.audio[3], RMul(EchoGain, dspOut.value[2]))

(***************************************************************************)
(* Properties of the orchestrator.                                         *)
(***************************************************************************)
IMin(a, b) == IF a < b THEN a ELSE b

\* C26: get_event_log(limit) returns at most limit events, the most recent
\* ones in log order, for every integer limit >= 0 and every log length;
\* called without a limit it returns a copy of the whole log, and mutating
\* the returned list does not change the orchestrator's log.
C26_EventLogLimit ==
    /\ [](orchRet.op = "get_event_log" =>
             LET given == orchRet.args[1]
                 limit == orchRet.args[2]
                 events == orchRet.value
                 n == Len(event_log)
             IN  /\ ~orchRet.aliased
                 /\ IF given
                    THEN /\ Len(events) = IMin(limit, n)
                         /\ events = SubSeq(event_log, n - Len(events) + 1, n)
                    ELSE events = event_log)
    /\ [][orchRet'.op = "caller_pops" => event_log' = event_log]_vars

\* the entries of the log that the last call added, the log having had
\* `before` entries when the call started
AddedSince(before) == SubSeq(event_log, before + 1, Len(event_log))

\* C29: when process_music_request returns, no registered module is left in
\* PROCESSING: each of chatgpt, studio and model that is registered, and so
\* was set to PROCESSING during the request, is back in READY; and
\* set_module_state on an unregistered module changed nothing and logged
\* nothing.
C29_NoModuleLeftProcessing ==
    orchRet.op = "process_music_request" =>
        /\ \A m \in modules : module_states[m] # "processing"
        /\ \A m \in modules \cap ModuleNames : module_states[m] = "ready"
        /\ DOMAIN module_states = modules
        /\ LET added == AddedSince(orchRet.args[1])
           IN  \A i \in 1..Len(added) :
                  added[i].type = "state_change" => added[i].data[1] \in modules

\* the callbacks registered for an event, in registration order
Registered(event_name) ==
    IF event_name \in DOMAIN callbacks THEN callbacks[event_name] ELSE <<>>

\* how many of the first n callbacks raise
RECURSIVE Raising(_, _)
Raising(cbs, n) ==
    IF n = 0 THEN 0 ELSE Raising(cbs, n - 1) + (IF cbs[n].raises THEN 1 ELSE 0)

\* C30: emit_event(name, data) appends the event to the log first and then
\* invokes every callback registered for that name in registration order
\* (on_event appends to the callbacks of the name); a callback that raises
\* does not keep the later callbacks from running, the call returns, and
\* each raising callback adds exactly one callback_error entry; the log is
\* append-only: no step removes or reorders entries.
C30_EmitLogsThenCallsBack ==
    [][ /\ (orchRet'.op = "emit_event" /\ orchOps' # orchOps) =>
              LET event_name == orchRet'.args[1]
                  cbs == Registered(event_name)
                  invoked == orchRet'.invoked
              IN  /\ event_log' =
                        Append(event_log,
                               [type |-> event_name, data |-> orchRet'.args[2]])
                        \o [i \in 1..Raising(cbs, Len(cbs)) |->
                               [type |-> "callback_error", data |-> <<event_name>>]]
                  /\ Len(invoked) = Len(cbs)
                  /\ \A i \in 1..Len(cbs) :
                        /\ invoked[i].id = cbs[i].id
                        /\ invoked[i].seen = Len(event_log) + 1 + Raising(cbs, i - 1)
        /\ (orchRet'.op = "on_event" /\ orchOps' # orchOps) =>
              LET event_name == orchRet'.args[1]
              IN  /\ Len(callbacks'[event_name]) = Len(Registered(event_name)) + 1
                  /\ SubSeq(callbacks'[event_name], 1, Len(Registered(event_name)))
                        = Registered(event_name)
                  /\ callbacks'[event_name][Len(callbacks'[event_name])].id
                        = orchRet'.args[2]
        /\ Len(event_log') >= Len(event_log)
        /\ SubSeq(event_log', 1, Len(event_log)) = event_log
      ]_vars

\* an emit_event has called three callbacks, the first and the last of
\* which raised: the one between them was called, and the log has the event
\* and two callback_error entries after it
C30_Witness ==
    /\ orchRet.op = "emit_event"
    /\ Len(orchRet.invoked) = 3
    /\ LET cbs == Registered(orchRet.args[1])
           n == Len(event_log)
       IN  /\ cbs[1].raises /\ ~cbs[2].raises /\ cbs[3].raises
           /\ n = 3
           /\ event_log[n - 2].type = orchRet.args[1]
           /\ event_log[n - 1].type = "callback_error"
           /\ event_log[n].type = "callback_error"

====
